---- MODULE Spec2Model ----
(***************************************************************************)
(* Model of lighthouse-core/audits/time-to-interactive.js: TTIMetric.audit *)
(* and generateError.                                                      *)
(*                                                                         *)
(* Numbers.  A JavaScript number is an IEEE 754 double and is modelled    *)
(* by its exact value: a sign, a whole part and five digits of 20 bits of  *)
(* binary fraction.  Sums and products are computed exactly and then       *)
(* rounded to 53 significant bits, ties to even, as the machine does; the  *)
(* doubles represented are 0 and those of magnitude between 2^-28 and      *)
(* 2^31.  A decimal numeral is written as an integer counting thousandths  *)
(* (50 ms is 50000, 2000.05 ms is 2000050) and Dbl gives the double        *)
(* nearest to it.  A string produced by toFixed is represented by the      *)
(* decimal it spells, in thousandths (the comparison of line 97 turns the  *)
(* string back into a number).                                             *)
(*                                                                         *)
(* Every variable is a function of the audit invocation: the source keeps  *)
(* all of its state in the locals of one call of audit().                  *)
(***************************************************************************)
EXTENDS Integers, Sequences, FiniteSets, TLC

VARIABLES
    pc,                  \* position of each invocation in audit()
    fmpResult,           \* value FMPMetric.audit resolved with (line 60)
    fmpTiming,           \* line 64
    timings,             \* line 65
    modelBuilt,          \* tracingProcessor.init has returned (line 69)
    endOfTraceTime,      \* line 70
    framesScanned,       \* Speedline.frames.map has run (line 76)
    visualProgress,      \* line 76
    visuallyReadyTiming, \* line 86
    startTime,           \* line 89
    endTime,             \* line 90
    currentLatency,      \* line 91
    foundLatencies,      \* line 94
    queries,             \* calls of getRiskToResponsiveness made so far (line 107)
    answers,             \* latencies[0].time of the calls that returned (line 109)
    search,              \* how far the loop of lines 97-117 is, and how it was left
    timeToInteractive,   \* line 118
    distribution,        \* line 124
    err,                 \* exception travelling to the .catch handler (line 150)
    returned,            \* value the .then callback returned (lines 62, 104, 144)
    settled,             \* state of the promise audit() returned
    result               \* value that promise settled with

vars == <<pc, fmpResult, fmpTiming, timings, modelBuilt, endOfTraceTime,
          framesScanned, visualProgress, visuallyReadyTiming, startTime, endTime,
          currentLatency, foundLatencies, queries, answers, search,
          timeToInteractive, distribution, err, returned, settled, result>>

-----------------------------------------------------------------------------
(* Bounds of the model                                                     *)

\* longest Speedline frame list drawn
MaxFrames == 2
\* the trace ends drawn leave room for at most MaxTraceSteps + 1 windows
MaxTraceSteps == 3

\* audit invocations of the model; Spec runs the invocations of Sequential
AuditIds == {1, 2}
Sequential == {1}

-----------------------------------------------------------------------------
(* Program constants                                                       *)

\* line 89 and line 99: the 50 ms step
Step == 50000
\* line 100: the 500 ms window
Window == 500000
\* line 93
threshold == 50000
\* line 92: 0.9, in hundredths
percentile == 90
\* line 84: visual completeness of 85%
VisuallyReadyProgress == 85
\* line 91: Infinity, a value above every latency
Infinity == 2147483647
\* line 17 and line 18
SCORING_POINT_OF_DIMINISHING_RETURNS == 1700
SCORING_MEDIAN == 5000

-----------------------------------------------------------------------------
(* JavaScript values                                                       *)

\* the value undefined
Undefined == [type |-> "undefined"]
\* a string
Str(s) == [type |-> "string", text |-> s]
\* an Error object
Error(m) == [type |-> "error", message |-> m]
\* a number used where a string may also stand
Num(n) == <<"number", n>>
\* the template string `${t}ms` (line 146)
MsString(t) == <<"ms", t>>

-----------------------------------------------------------------------------
(* JavaScript numbers: IEEE 754 doubles                                    *)

\* one digit of the binary fraction holds 20 bits
Limb == 1048576
\* significant bits of a double
Precision == 53

\* the element of a one-element set: The({e(v) : v \in {x}}) is e(x), with
\* x worked out once however often e refers to it
The(S) == CHOOSE v \in S : TRUE

\* the digits of a magnitude: the whole part, then the fraction
Digits(x) == <<x.int>> \o x.frac

\* the number of sign neg whose magnitude has the digits d
Signed(neg, d) ==
    The({[neg |-> neg /\ (\E i \in 1..Len(v) : v[i] # 0),
          int |-> v[1],
          frac |-> SubSeq(v, 2, Len(v))] : v \in {d}})

\* the whole number n
Whole(n) == Signed(n < 0, <<IF n < 0 THEN -n ELSE n, 0, 0, 0, 0, 0>>)

\* digits 1..i of raw, each brought into 0..Limb-1 by carrying c into digit i
RECURSIVE Carried(_, _, _)
Carried(raw, i, c) ==
    IF i = 1 THEN <<raw[1] + c>>
    ELSE The({Append(Carried(raw, i - 1, v \div Limb), v % Limb) : v \in {raw[i] + c}})

\* sum and difference of two magnitudes, and a magnitude times a small k
MagAdd(x, y) == Carried([i \in 1..6 |-> Digits(x)[i] + Digits(y)[i]], 6, 0)
MagSub(x, y) == Carried([i \in 1..6 |-> Digits(x)[i] - Digits(y)[i]], 6, 0)
MagTimes(x, k) == Carried([i \in 1..6 |-> Digits(x)[i] * k], 6, 0)

\* the magnitude of x is below that of y: at the first digit where they
\* differ x has the smaller one
MagLess(x, y) ==
    \E i \in 1..6 :
        /\ Digits(x)[i] < Digits(y)[i]
        /\ \A h \in 1..(i - 1) : Digits(x)[h] = Digits(y)[h]

\* the relations < and <= of two numbers
Less(x, y) ==
    \E v \in {x}, w \in {y} :
        IF v.neg /\ ~w.neg THEN TRUE
        ELSE IF ~v.neg /\ w.neg THEN FALSE
        ELSE IF v.neg THEN MagLess(w, v)
        ELSE MagLess(v, w)

Leq(x, y) == ~Less(y, x)

\* Math.max and Math.min
Max(a, b) == The({IF Less(v, w) THEN w ELSE v : v \in {a}, w \in {b}})
Min(a, b) == The({IF Less(w, v) THEN w ELSE v : v \in {a}, w \in {b}})

\* the number of bits of n
RECURSIVE BitLen(_)
BitLen(n) == IF n = 0 THEN 0 ELSE 1 + BitLen(n \div 2)

RECURSIVE Pow2(_)
Pow2(n) == IF n = 0 THEN 1 ELSE 2 * Pow2(n - 1)

\* the number of fraction bits a double of the magnitude of x has: 53
\* significant bits counted from its leading bit
FractionBits(x) ==
    IF x.int > 0 THEN Precision - BitLen(x.int)
    ELSE IF \A i \in 1..5 : x.frac[i] = 0 THEN Precision
    ELSE LET j == CHOOSE i \in 1..5 :
                      x.frac[i] # 0 /\ \A h \in 1..(i - 1) : x.frac[h] = 0
         IN Precision + 20 * (j - 1) + (20 - BitLen(x.frac[j]))

\* x, followed by a nonzero remainder when sticky, rounded to a multiple of
\* unit in fraction digit j, the nearest one, of two equally near the even
\* one
RoundedTo(x, sticky, j, unit) ==
    The({LET f == x.frac[j]
             rest(from) == (\E i \in from..5 : x.frac[i] # 0) \/ sticky
             cmp == IF u > 1
                    THEN IF f % u > u \div 2 THEN 1
                         ELSE IF f % u < u \div 2 THEN -1
                         ELSE IF rest(j + 1) THEN 1 ELSE 0
                    ELSE IF x.frac[j + 1] > Limb \div 2 THEN 1
                         ELSE IF x.frac[j + 1] < Limb \div 2 THEN -1
                         ELSE IF rest(j + 2) THEN 1 ELSE 0
         IN The({Signed(x.neg, Carried([i \in 1..6 |->
                                           IF i < j + 1 THEN Digits(x)[i]
                                           ELSE IF i = j + 1
                                                THEN (f \div u) * u + (IF up THEN u ELSE 0)
                                                ELSE 0], 6, 0))
                 : up \in {cmp = 1 \/ (cmp = 0 /\ (f \div u) % 2 = 1)}})
         : u \in {unit}})

\* x rounded to bits fraction bits
RoundedAt(x, sticky, bits) ==
    The({IF k > 80 THEN x
         ELSE RoundedTo(x, sticky, (k + 19) \div 20, Pow2(20 * ((k + 19) \div 20) - k))
         : k \in {bits}})

\* the exact value x, followed by a nonzero remainder when sticky, rounded
\* to the nearest double, ties to even
Nearest(x, sticky) == The({RoundedAt(v, sticky, FractionBits(v)) : v \in {x}})

\* the first n digits of the binary fraction r / den, then what remains
RECURSIVE FractionDigits(_, _, _)
FractionDigits(r, den, n) ==
    IF n = 0 THEN <<r>>
    ELSE <<(r * Limb) \div den>> \o FractionDigits((r * Limb) % den, den, n - 1)

\* the value of a decimal numeral of t thousandths: the nearest double
Dbl(t) ==
    LET m == IF t < 0 THEN -t ELSE t
    IN The({Nearest(Signed(t < 0, <<m \div 1000>> \o SubSeq(d, 1, 5)), d[6] # 0)
            : d \in {FractionDigits(m % 1000, 1000, 5)}})

\* x with the opposite sign
Negated(x) == The({Signed(~v.neg, Digits(v)) : v \in {x}})

\* the sum of x and y before it is rounded
ExactPlus(x, y) ==
    The({IF v.neg = w.neg THEN Signed(v.neg, MagAdd(v, w))
         ELSE IF MagLess(v, w) THEN Signed(w.neg, MagSub(w, v))
         ELSE Signed(v.neg, MagSub(v, w))
         : v \in {x}, w \in {y}})

\* the operators + and - of two numbers
Plus(x, y) == Nearest(ExactPlus(x, y), FALSE)
Minus(x, y) == Plus(x, Negated(y))

\* the operator * of the whole number k, at most 1000, and a number
Times(k, x) == The({Nearest(Signed(v.neg, MagTimes(v, k)), FALSE) : v \in {x}})

\* Number.prototype.toFixed(digits) for digits in 1..2: the decimal with
\* that many fraction digits nearest to the exact value of x, the larger
\* one of two equally near; the string is represented by the decimal it
\* spells, in thousandths
toFixed(x, digits) ==
    LET k == IF digits = 1 THEN 10 ELSE 100
    IN The({(IF v.neg THEN -(y[1] + (IF y[2] >= Limb \div 2 THEN 1 ELSE 0))
             ELSE y[1] + (IF y[2] >= Limb \div 2 THEN 1 ELSE 0)) * (1000 \div k)
            : <<v, y>> \in {<<w, MagTimes(w, k)>> : w \in {x}}})

\* parseFloat of an upstream rawValue: a number is the whole number it is
\* (parseFloat(-1) is -1), a string the number its leading numeral spells
parseFloat(raw) == IF raw[1] = "number" THEN Whole(raw[2]) ELSE Dbl(raw[2])

\* Math.round: the nearest integer, the larger one of two equally near
MathRound(x) ==
    The({IF v.neg
         THEN LET overHalf == \/ v.frac[1] > Limb \div 2
                              \/ v.frac[1] = Limb \div 2 /\ \E i \in 2..5 : v.frac[i] # 0
              IN -(v.int + (IF overHalf THEN 1 ELSE 0))
         ELSE v.int + (IF v.frac[1] >= Limb \div 2 THEN 1 ELSE 0)
         : v \in {x}})

\* Audit.generateAuditResult (lighthouse-core/audits/audit.js)
generateAuditResult(r) ==
    [type |-> "object",
     score |-> r.value,
     rawValue |-> r.rawValue,
     optimalValue |-> r.optimalValue,
     debugString |-> r.debugString,
     extendedInfo |-> r.extendedInfo]

\* TTIMetric.meta.optimalValue (line 29)
OptimalValue == Str("TBD")

\* generateError (lines 159-166)
generateError(e) ==
    generateAuditResult([value |-> -1,
                         rawValue |-> Num(-1),
                         optimalValue |-> OptimalValue,
                         debugString |-> e,
                         extendedInfo |-> Undefined])

-----------------------------------------------------------------------------
(* Inputs: what the collaborators answer                                   *)

\* timings of the meaningful paint
FmpTimings == [fMPfull : {Dbl(2000000)}, navStart : {Dbl(0), Dbl(1000000)}]

\* results FMPMetric.audit resolves with: a score with its timings, or the
\* sentinel -1 with a debug string
FmpResults ==
    [value : {80}, rawValue : {MsString(2000000), MsString(2120000)},
     debugString : {Undefined}, extendedInfo : [timings : FmpTimings]]
    \cup
    [value : {-1}, rawValue : {Num(-1)},
     debugString : {Str("No usable traceContents"), Str("No first paint event")},
     extendedInfo : [timings : FmpTimings]]

\* errors a collaborator throws
FmpRejection == Error("FMPMetric.audit rejected")
TraceError == Error("tracingProcessor.init threw")
FrameError == Error("frame.getProgress threw")
EstimatorError == Error("getRiskToResponsiveness threw")
DistributionError == Error("computeComplementaryPercentile threw")
\* TypeError of line 86, reading .time of undefined
VisuallyReadyTypeError == Error("Cannot read property 'time' of undefined")

\* model.bounds.max of the traces drawn: 2500.05 ms and steps of 50 ms
\* after it, where windows that start at 2000.05 ms end, and 2500.14 and
\* 2550.14 ms, which the sums 2000.14 + 500 and 2050.14 + 500 of doubles
\* exceed
TraceEnds ==
    {Dbl(2500050 + k * Step) : k \in 0..MaxTraceSteps}
        \cup {Dbl(2500140), Dbl(2550140)}

\* one Speedline frame, as the pair getProgress(), getTimeStamp(); the
\* double of 2000.05 is below 2000.05 and that of 2050.05 above it
FrameSamples ==
    [progress : {84, 85}, time : {Dbl(2000050), Dbl(2000140), Dbl(3000140)}]

\* Speedline's frames are in time order
TimeOrdered(fs) == \A i \in 1..(Len(fs) - 1) : Leq(fs[i].time, fs[i + 1].time)

FrameLists ==
    {fs \in UNION {[1..n -> FrameSamples] : n \in 0..MaxFrames} : TimeOrdered(fs)}

\* latencies[0].time answers of the estimator
Latencies == {Dbl(t) : t \in {40000, 49996, 50000, 50004, 50006, 60000}}

\* answers of distribution.computeComplementaryPercentile; 100 * 0.145 is
\* below 14.5 in doubles
CcdfValues == {Dbl(c) : c \in {-100, 145, 504, 1000, 1200}}

\* distributions getLogNormalDistribution may return: the complementary
\* percentile is hi before the knee and lo from it on
Distributions == [hi : CcdfValues, lo : CcdfValues, knee : {2050000}]

\* distribution.computeComplementaryPercentile(x), x the string of line 118
computeComplementaryPercentile(d, x) == IF x < d.knee THEN d.hi ELSE d.lo

-----------------------------------------------------------------------------
(* Initial state: no invocation has been made                              *)

Init ==
    /\ pc = [a \in AuditIds |-> "idle"]
    /\ fmpResult = [a \in AuditIds |-> Undefined]
    /\ fmpTiming = [a \in AuditIds |-> Whole(0)]
    /\ timings = [a \in AuditIds |-> Undefined]
    /\ modelBuilt = [a \in AuditIds |-> FALSE]
    /\ endOfTraceTime = [a \in AuditIds |-> Whole(0)]
    /\ framesScanned = [a \in AuditIds |-> FALSE]
    /\ visualProgress = [a \in AuditIds |-> <<>>]
    /\ visuallyReadyTiming = [a \in AuditIds |-> Whole(0)]
    /\ startTime = [a \in AuditIds |-> Whole(0)]
    /\ endTime = [a \in AuditIds |-> Whole(0)]
    /\ currentLatency = [a \in AuditIds |-> 0]
    /\ foundLatencies = [a \in AuditIds |-> <<>>]
    /\ queries = [a \in AuditIds |-> <<>>]
    /\ answers = [a \in AuditIds |-> <<>>]
    /\ search = [a \in AuditIds |-> "NotStarted"]
    /\ timeToInteractive = [a \in AuditIds |-> 0]
    /\ distribution = [a \in AuditIds |-> Undefined]
    /\ err = [a \in AuditIds |-> Undefined]
    /\ returned = [a \in AuditIds |-> Undefined]
    /\ settled = [a \in AuditIds |-> "none"]
    /\ result = [a \in AuditIds |-> Undefined]

-----------------------------------------------------------------------------
(* Control transfers                                                       *)

\* the callback goes on to the statement at label l
Goto(a, l) ==
    /\ pc' = [pc EXCEPT ![a] = l]
    /\ UNCHANGED <<err, returned, settled, result>>

\* an exception leaves the .then callback towards .catch (line 150)
Throw(a, e) ==
    /\ pc' = [pc EXCEPT ![a] = "catch"]
    /\ err' = [err EXCEPT ![a] = e]
    /\ UNCHANGED <<returned, settled, result>>

\* the .then callback returns v (lines 62, 104, 144): the promise .then
\* gave is fulfilled with v; the promise audit() returned is the one
\* .catch gave, which is still pending
Return(a, v) ==
    /\ pc' = [pc EXCEPT ![a] = "returned"]
    /\ returned' = [returned EXCEPT ![a] = v]
    /\ UNCHANGED <<err, settled, result>>

\* the promise audit() returned resolves with v
Resolve(a, v) ==
    /\ pc' = [pc EXCEPT ![a] = "done"]
    /\ settled' = [settled EXCEPT ![a] = "resolved"]
    /\ result' = [result EXCEPT ![a] = v]
    /\ UNCHANGED <<err, returned>>

-----------------------------------------------------------------------------
(* Pure parts of audit()                                                   *)

\* line 61 with the sentinel test lost
IsUpstreamFailure_Ignored(r) == FALSE

\* line 61
IsUpstreamFailure(r) == r.value = -1

\* line 82
fMPts(t) == Plus(t.fMPfull, t.navStart)

\* lines 83-85: the predicate given to Array.prototype.find
IsVisuallyReady(frame, ts) ==
    Leq(ts, frame.time) /\ frame.progress >= VisuallyReadyProgress

\* lines 83-85 with a fallback to the paint instant when no frame matches
Find_WithFallback(frames, ts) ==
    IF \E i \in 1..Len(frames) : IsVisuallyReady(frames[i], ts)
    THEN LET i == CHOOSE j \in 1..Len(frames) :
                      /\ IsVisuallyReady(frames[j], ts)
                      /\ \A k \in 1..(j - 1) : ~IsVisuallyReady(frames[k], ts)
         IN [type |-> "object", progress |-> frames[i].progress, time |-> frames[i].time]
    ELSE [type |-> "object", progress |-> 0, time |-> ts]

\* lines 83-85 taking the last matching frame instead of the first
Find_LastMatch(frames, ts) ==
    IF \E i \in 1..Len(frames) : IsVisuallyReady(frames[i], ts)
    THEN LET i == CHOOSE j \in 1..Len(frames) :
                      /\ IsVisuallyReady(frames[j], ts)
                      /\ \A k \in (j + 1)..Len(frames) : ~IsVisuallyReady(frames[k], ts)
         IN [type |-> "object", progress |-> frames[i].progress, time |-> frames[i].time]
    ELSE Undefined

\* lines 83-85: Array.prototype.find, the first match or undefined
Find(frames, ts) ==
    IF \E i \in 1..Len(frames) : IsVisuallyReady(frames[i], ts)
    THEN LET i == CHOOSE j \in 1..Len(frames) :
                      /\ IsVisuallyReady(frames[j], ts)
                      /\ \A k \in 1..(j - 1) : ~IsVisuallyReady(frames[k], ts)
         IN [type |-> "object", progress |-> frames[i].progress, time |-> frames[i].time]
    ELSE Undefined

\* line 89 without the subtraction of one step
InitialStartTime_NoStepBack(fmp, ready) == Max(fmp, ready)

\* line 89
InitialStartTime(fmp, ready) == Minus(Max(fmp, ready), Dbl(Step))

\* line 97 comparing with 5 ms instead of the threshold
LoopContinues_LowThreshold(latency) == latency > 5000

\* line 97: the loop's condition
LoopContinues(latency) == latency > threshold

\* line 99 advancing by 100 ms instead of 50 ms
NextStartTime_DoubleStep(s) == Plus(s, Dbl(2 * Step))

\* line 99
NextStartTime(s) == Plus(s, Dbl(Step))

\* line 100
WindowEnd(s) == Plus(s, Dbl(Window))

\* line 103 testing the start of the window instead of its end
PastEndOfTrace_StartOnly(e, traceEnd) == Less(traceEnd, Minus(e, Dbl(Window)))

\* line 103 letting the window run one step past the end of the trace
PastEndOfTrace_OneStepLate(e, traceEnd) == Less(Plus(traceEnd, Dbl(Step)), e)

\* line 103
PastEndOfTrace(e, traceEnd) == Less(traceEnd, e)

\* line 94 with foundLatencies declared once for the module instead of
\* inside the callback
LogScope_Module(a) == 1

\* line 94: foundLatencies is declared inside the callback, one array for
\* each invocation
LogScope(a) == a

\* lines 110-113 with the window start kept to two fraction digits
Observation_TwoDigits(s, estLatency) == [startTime |-> toFixed(s, 2), estLatency |-> estLatency]

\* lines 109-113: the entry pushed to foundLatencies
Observation(s, estLatency) == [startTime |-> toFixed(s, 1), estLatency |-> estLatency]

\* lines 126-131 without the clamping of lines 129 and 130
Score_NoClamp(c) == MathRound(Times(100, c))

\* lines 126-131 with the percentile taken for its complement
Score_OfPercentile(c) ==
    MathRound(Max(Whole(0), Min(Whole(100), Times(100, Minus(Whole(1), c)))))

\* lines 126-131, c the complementary percentile
Score(c) == MathRound(Max(Whole(0), Min(Whole(100), Times(100, c))))

-----------------------------------------------------------------------------
(* The steps of audit()                                                    *)

\* lines 58-60: audit(artifacts) calls FMPMetric.audit and returns the
\* promise chained on it
Invoke(a) ==
    /\ pc[a] = "idle"
    /\ pc' = [pc EXCEPT ![a] = "fmp"]
    /\ settled' = [settled EXCEPT ![a] = "pending"]
    /\ UNCHANGED <<fmpResult, fmpTiming, timings, modelBuilt, endOfTraceTime,
                   framesScanned, visualProgress, visuallyReadyTiming, startTime,
                   endTime, currentLatency, foundLatencies, queries, answers,
                   search, timeToInteractive, distribution, err, returned, result>>

\* FMPMetric.audit rejects: the .then callback is skipped (line 60)
FMPRejected(a) ==
    /\ pc[a] = "fmp"
    /\ Throw(a, FmpRejection)
    /\ UNCHANGED <<fmpResult, fmpTiming, timings, modelBuilt, endOfTraceTime,
                   framesScanned, visualProgress, visuallyReadyTiming, startTime,
                   endTime, currentLatency, foundLatencies, queries, answers,
                   search, timeToInteractive,
                   distribution>>

\* lines 60-65: FMPMetric.audit resolves with r
FMPResolved(a) ==
    /\ pc[a] = "fmp"
    /\ \E r \in FmpResults :
        /\ fmpResult' = [fmpResult EXCEPT ![a] = r]
        /\ IF IsUpstreamFailure(r)
           THEN /\ Return(a, generateError(r.debugString))
                /\ UNCHANGED <<fmpTiming, timings>>
           ELSE /\ fmpTiming' = [fmpTiming EXCEPT ![a] = parseFloat(r.rawValue)]
                /\ timings' = [timings EXCEPT ![a] = r.extendedInfo.timings]
                /\ Goto(a, "trace")
    /\ UNCHANGED <<modelBuilt, endOfTraceTime, framesScanned, visualProgress,
                   visuallyReadyTiming, startTime, endTime, currentLatency,
                   foundLatencies, queries, answers, search, timeToInteractive,
                   distribution>>

\* lines 68-70: the trace model is built and its end read, or init throws
ProcessTrace(a) ==
    /\ pc[a] = "trace"
    /\ \/ /\ Throw(a, TraceError)
          /\ UNCHANGED <<modelBuilt, endOfTraceTime>>
       \/ \E max \in TraceEnds :
            /\ modelBuilt' = [modelBuilt EXCEPT ![a] = TRUE]
            /\ endOfTraceTime' = [endOfTraceTime EXCEPT ![a] = max]
            /\ Goto(a, "frames")
    /\ UNCHANGED <<fmpResult, fmpTiming, timings, framesScanned, visualProgress,
                   visuallyReadyTiming, startTime, endTime, currentLatency,
                   foundLatencies, queries, answers, search, timeToInteractive,
                   distribution>>

\* lines 76-81: every frame is read into visualProgress, or a frame throws
MapFrames(a) ==
    /\ pc[a] = "frames"
    /\ framesScanned' = [framesScanned EXCEPT ![a] = TRUE]
    /\ \/ /\ Throw(a, FrameError)
          /\ UNCHANGED visualProgress
       \/ \E frames \in FrameLists :
            /\ visualProgress' = [visualProgress EXCEPT ![a] = frames]
            /\ Goto(a, "fusion")
    /\ UNCHANGED <<fmpResult, fmpTiming, timings, modelBuilt, endOfTraceTime,
                   visuallyReadyTiming, startTime, endTime, currentLatency,
                   foundLatencies, queries, answers, search, timeToInteractive,
                   distribution>>

\* lines 82-94: the visually ready frame is looked up and the search set up;
\* reading .time of undefined throws a TypeError (line 86)
Fusion(a) ==
    /\ pc[a] = "fusion"
    /\ LET visuallyReady == Find(visualProgress[a], fMPts(timings[a])) IN
       IF visuallyReady = Undefined
       THEN /\ Throw(a, VisuallyReadyTypeError)
            /\ UNCHANGED <<visuallyReadyTiming, startTime, currentLatency, search>>
       ELSE LET ready == Minus(visuallyReady.time, timings[a].navStart) IN
            /\ visuallyReadyTiming' = [visuallyReadyTiming EXCEPT ![a] = ready]
            /\ startTime' = [startTime EXCEPT ![a] = InitialStartTime(fmpTiming[a], ready)]
            /\ currentLatency' = [currentLatency EXCEPT ![a] = Infinity]
            /\ search' = [search EXCEPT ![a] = "Searching"]
            /\ Goto(a, "search")
    /\ UNCHANGED <<fmpResult, fmpTiming, timings, modelBuilt, endOfTraceTime,
                   framesScanned, visualProgress, endTime, foundLatencies, queries,
                   answers, timeToInteractive,
                   distribution>>

\* lines 97-117: one iteration of the loop
SearchIter(a) ==
    /\ pc[a] = "search"
    /\ LoopContinues(currentLatency[a])
    /\ LET s == NextStartTime(startTime[a])
           e == WindowEnd(s)
       IN
       /\ startTime' = [startTime EXCEPT ![a] = s]
       /\ endTime' = [endTime EXCEPT ![a] = e]
       /\ IF PastEndOfTrace(e, endOfTraceTime[a])
          THEN \* line 104: return;
               /\ Return(a, Undefined)
               /\ search' = [search EXCEPT ![a] = "Exhausted"]
               /\ UNCHANGED <<queries, answers, foundLatencies, currentLatency>>
          ELSE /\ queries' = [queries EXCEPT ![a] =
                     Append(@, [startTime |-> s, endTime |-> e,
                                percentiles |-> <<percentile>>])]
               /\ \/ /\ Throw(a, EstimatorError)
                     /\ search' = [search EXCEPT ![a] = "Threw"]
                     /\ UNCHANGED <<answers, foundLatencies, currentLatency>>
                  \/ \E time \in Latencies :
                       LET estLatency == toFixed(time, 2) IN
                       /\ answers' = [answers EXCEPT ![a] = Append(@, time)]
                       /\ search' = [search EXCEPT ![a] = "Searching"]
                       /\ foundLatencies' = [foundLatencies EXCEPT ![LogScope(a)] =
                             Append(@, Observation(s, estLatency))]
                       /\ currentLatency' = [currentLatency EXCEPT ![a] = estLatency]
                       /\ Goto(a, "search")
    /\ UNCHANGED <<fmpResult, fmpTiming, timings, modelBuilt, endOfTraceTime,
                   framesScanned, visualProgress, visuallyReadyTiming,
                   timeToInteractive,
                   distribution>>

\* lines 97 and 118: the loop's condition fails and the loop is left
SearchFound(a) ==
    /\ pc[a] = "search"
    /\ ~LoopContinues(currentLatency[a])
    /\ timeToInteractive' = [timeToInteractive EXCEPT ![a] = toFixed(startTime[a], 1)]
    /\ search' = [search EXCEPT ![a] = "Found"]
    /\ Goto(a, "score")
    /\ UNCHANGED <<fmpResult, fmpTiming, timings, modelBuilt, endOfTraceTime,
                   framesScanned, visualProgress, visuallyReadyTiming, startTime,
                   endTime, currentLatency, foundLatencies, queries, answers,
                   distribution>>

\* lines 133-141
ExtendedInfo(a) ==
    [type |-> "object",
     timings |-> [fMP |-> toFixed(fmpTiming[a], 1),
                  visuallyReady |-> toFixed(visuallyReadyTiming[a], 1),
                  mainThreadAvail |-> toFixed(startTime[a], 1)],
     expectedLatencyAtTTI |-> currentLatency[a],
     foundLatencies |-> foundLatencies[LogScope(a)]]

\* lines 124-149: the score is computed and the result built, or the
\* distribution throws
Normalize(a) ==
    /\ pc[a] = "score"
    /\ \/ /\ Throw(a, DistributionError)
          /\ UNCHANGED distribution
       \/ \E d \in Distributions :
            /\ distribution' = [distribution EXCEPT ![a] = d]
            /\ Return(a, generateAuditResult(
                  [value |-> Score(computeComplementaryPercentile(d, timeToInteractive[a])),
                   rawValue |-> MsString(timeToInteractive[a]),
                   optimalValue |-> OptimalValue,
                   debugString |-> Undefined,
                   extendedInfo |-> ExtendedInfo(a)]))
    /\ UNCHANGED <<fmpResult, fmpTiming, timings, modelBuilt, endOfTraceTime,
                   framesScanned, visualProgress, visuallyReadyTiming, startTime,
                   endTime, currentLatency, foundLatencies, queries, answers,
                   search, timeToInteractive>>

\* line 150: the promise .then gave is fulfilled, the .catch handler is
\* passed over, and one job after the callback's return the promise
\* audit() returned resolves with the value returned
Settle(a) ==
    /\ pc[a] = "returned"
    /\ Resolve(a, returned[a])
    /\ UNCHANGED <<fmpResult, fmpTiming, timings, modelBuilt, endOfTraceTime,
                   framesScanned, visualProgress, visuallyReadyTiming, startTime,
                   endTime, currentLatency, foundLatencies, queries, answers,
                   search, timeToInteractive,
                   distribution>>

\* lines 150-152: the .catch handler returns generateError(err), with
\* which the promise audit() returned resolves
Catch(a) ==
    /\ pc[a] = "catch"
    /\ Resolve(a, generateError(err[a]))
    /\ UNCHANGED <<fmpResult, fmpTiming, timings, modelBuilt, endOfTraceTime,
                   framesScanned, visualProgress, visuallyReadyTiming, startTime,
                   endTime, currentLatency, foundLatencies, queries, answers,
                   search, timeToInteractive,
                   distribution>>

\* one invocation at a time
Next ==
    \E a \in Sequential :
        \/ Invoke(a)
        \/ FMPRejected(a)
        \/ FMPResolved(a)
        \/ ProcessTrace(a)
        \/ MapFrames(a)
        \/ Fusion(a)
        \/ SearchIter(a)
        \/ SearchFound(a)
        \/ Normalize(a)
        \/ Settle(a)
        \/ Catch(a)

Spec == Init /\ [][Next]_vars

\* the callback of line 60 runs to completion once it has started, and a
\* settled promise runs its handlers
SpecLive == Spec /\ WF_vars(Next)

-----------------------------------------------------------------------------
(* Concurrent invocations                                                  *)

\* the inputs of the concurrent runs: one meaningful-paint result and its
\* failure, traces with room for one and for two windows, one frame list,
\* three latencies and two distributions
ConcurrentInputs ==
    \A a \in AuditIds :
        /\ fmpResult[a] \in
              {Undefined,
               [value |-> 80, rawValue |-> MsString(2000000), debugString |-> Undefined,
                extendedInfo |-> [timings |-> [fMPfull |-> Dbl(2000000), navStart |-> Dbl(0)]]],
               [value |-> -1, rawValue |-> Num(-1),
                debugString |-> Str("No first paint event"),
                extendedInfo |-> [timings |-> [fMPfull |-> Dbl(2000000), navStart |-> Dbl(0)]]]}
        /\ endOfTraceTime[a] \in {Whole(0), Dbl(2500050), Dbl(2550050)}
        /\ visualProgress[a] \in {<<>>, <<[progress |-> 85, time |-> Dbl(2000050)]>>}
        /\ \A i \in 1..Len(answers[a]) :
              answers[a][i] \in {Dbl(40000), Dbl(50004), Dbl(60000)}
        /\ distribution[a] \in
              {Undefined,
               [hi |-> Dbl(1000), lo |-> Dbl(504), knee |-> 2050000],
               [hi |-> Dbl(504), lo |-> Dbl(1000), knee |-> 2050000]}

\* audit() is called again before an earlier call has settled: the steps
\* of the invocations interleave
NextConcurrent ==
    \E a \in AuditIds :
        \/ Invoke(a) /\ ConcurrentInputs'
        \/ FMPRejected(a) /\ ConcurrentInputs'
        \/ FMPResolved(a) /\ ConcurrentInputs'
        \/ ProcessTrace(a) /\ ConcurrentInputs'
        \/ MapFrames(a) /\ ConcurrentInputs'
        \/ Fusion(a) /\ ConcurrentInputs'
        \/ SearchIter(a) /\ ConcurrentInputs'
        \/ SearchFound(a) /\ ConcurrentInputs'
        \/ Normalize(a) /\ ConcurrentInputs'
        \/ Settle(a) /\ ConcurrentInputs'
        \/ Catch(a) /\ ConcurrentInputs'

SpecConcurrent == Init /\ [][NextConcurrent]_vars

-----------------------------------------------------------------------------
(* Vocabulary of the properties                                            *)

\* the audit has finished: the promise audit() returned has settled
Finished(a) == pc[a] = "done"

\* the result is a record made by generateAuditResult
IsResultRecord(r) == r.type = "object"

\* the sentinel failure shape: score -1, rawValue -1 and a reason
IsFailureResult(r) ==
    /\ IsResultRecord(r)
    /\ r.score = -1
    /\ r.rawValue = Num(-1)
    /\ r.debugString # Undefined

\* a successful result: a score in 0..100
IsSuccessResult(r) ==
    /\ IsResultRecord(r)
    /\ r.score \in 0..100

\* some sample of the visual progress is at or after the paint instant
\* with progress of at least 85
HasVisuallyReadySample(a) ==
    \E i \in 1..Len(visualProgress[a]) :
        /\ Leq(Plus(timings[a].fMPfull, timings[a].navStart), visualProgress[a][i].time)
        /\ visualProgress[a][i].progress >= 85

\* the fused ready instant max(firstMeaningfulPaint, readyTime)
FusedInstant(a) == Max(fmpTiming[a], visuallyReadyTiming[a])

\* the last element of a non-empty sequence
Last(q) == q[Len(q)]

-----------------------------------------------------------------------------
(* C1 *)

\* C1: when the search runs off the end of the trace, also on the first
\* iteration, the audit's result is an explicit failure record (score -1
\* with a reason), never undefined.
C1_ExhaustionIsExplicitFailure ==
    \A a \in AuditIds :
        (search[a] = "Exhausted" /\ Finished(a)) => IsFailureResult(result[a])

-----------------------------------------------------------------------------
(* C2 *)

\* C2: the search ends in Found only when the latency the estimator gave
\* for the accepted window is strictly below 50; a window whose latency is
\* exactly 50 does not end the search.
C2_FoundOnlyStrictlyBelowThreshold ==
    \A a \in AuditIds :
        search[a] = "Found" =>
            /\ answers[a] # <<>>
            /\ Less(Last(answers[a]), Dbl(50000))

-----------------------------------------------------------------------------
(* C3 *)

\* the meaningful-paint computation reported the sentinel -1
UpstreamReportedFailure(a) == fmpResult[a] # Undefined /\ fmpResult[a].value = -1

\* C3: when the meaningful-paint computation reports -1 the audit returns
\* score -1, rawValue -1 and the upstream debug string unchanged, and no
\* further stage runs: no trace model, no frame scan, no estimator query.
\* The callback returns that record at once and the promise of the audit
\* resolves with it, and with nothing else, one job later.
C3_UpstreamFailureShortCircuits ==
    \A a \in AuditIds :
        UpstreamReportedFailure(a) =>
            /\ pc[a] \in {"returned", "done"}
            /\ IsResultRecord(returned[a])
            /\ returned[a].score = -1
            /\ returned[a].rawValue = Num(-1)
            /\ returned[a].debugString = fmpResult[a].debugString
            /\ IF Finished(a)
               THEN settled[a] = "resolved" /\ result[a] = returned[a]
               ELSE settled[a] = "pending" /\ result[a] = Undefined
            /\ ~modelBuilt[a]
            /\ ~framesScanned[a]
            /\ queries[a] = <<>>
            /\ search[a] = "NotStarted"

C3_Witness ==
    \E a \in AuditIds :
        /\ UpstreamReportedFailure(a)
        /\ Finished(a)
        /\ settled[a] = "resolved"
        /\ result[a].debugString = Str("No first paint event")

-----------------------------------------------------------------------------
(* C4 *)

\* the frames have been read and none of them is visually ready
NoVisualCompletion(a) ==
    /\ pc[a] \in {"fusion", "search", "score", "catch", "done"}
    /\ timings[a] # Undefined
    /\ visualProgress[a] # <<>>
    /\ ~HasVisuallyReadySample(a)

\* C4: when no sample is at or after the paint instant with progress >= 85
\* the audit ends with a failure result, the search never starts (no
\* estimator query) and no score in 0..100 and no interactive time is made.
C4_NoVisualCompletionFails ==
    \A a \in AuditIds :
        NoVisualCompletion(a) =>
            /\ pc[a] \in {"fusion", "catch", "done"}
            /\ search[a] = "NotStarted"
            /\ queries[a] = <<>>
            /\ timeToInteractive[a] = 0
            /\ Finished(a) => (IsFailureResult(result[a]) /\ ~IsSuccessResult(result[a]))

C4_Witness ==
    \E a \in AuditIds :
        /\ NoVisualCompletion(a)
        /\ Finished(a)
        /\ result[a].debugString = VisuallyReadyTypeError

-----------------------------------------------------------------------------
(* C5 *)

\* C5 as stated: the first window given to the estimator begins one step
\* (50 ms) before the fused ready instant.
C5_FirstWindowOneStepBefore ==
    \A a \in AuditIds :
        queries[a] # <<>> =>
            queries[a][1].startTime = Minus(FusedInstant(a), Dbl(50000))

\* C5 amended: the first window given to the estimator begins exactly at
\* the fused ready instant and is 500 ms wide.
C5_FirstWindowAtFusedInstant ==
    \A a \in AuditIds :
        queries[a] # <<>> =>
            /\ queries[a][1].startTime = FusedInstant(a)
            /\ queries[a][1].endTime = Plus(FusedInstant(a), Dbl(500000))

\* paint at 2000 ms and readiness at 2000.14 ms: the first query is for
\* the window that starts at 2000.14 ms
C5_Witness ==
    \E a \in AuditIds :
        /\ queries[a] # <<>>
        /\ fmpTiming[a] = Dbl(2000000)
        /\ visuallyReadyTiming[a] = Dbl(2000140)
        /\ queries[a][1].startTime = Dbl(2000140)
        /\ queries[a][1].endTime = Plus(Dbl(2000140), Dbl(500000))

-----------------------------------------------------------------------------
(* C6 *)

\* C6 as stated: the window starts logged for consecutive observations
\* differ by exactly 50 ms.
C6_LoggedStartsExactlyOneStepApart ==
    \A a \in AuditIds :
        \A i \in 1..(Len(foundLatencies[a]) - 1) :
            foundLatencies[a][i + 1].startTime = foundLatencies[a][i].startTime + 50000

\* the log holds one observation per answered query, in the order of the
\* queries; each window starts 50 ms after the one before, and the starts
\* logged, which toFixed(1) has rounded, increase by 49.9, 50.0 or 50.1 ms
C6_LogInvariant ==
    \A a \in AuditIds :
        /\ Len(foundLatencies[a]) = Len(answers[a])
        /\ Len(foundLatencies[a]) <= Len(queries[a])
        /\ Len(queries[a]) <= Len(foundLatencies[a]) + 1
        /\ \A i \in 1..Len(foundLatencies[a]) :
              foundLatencies[a][i].startTime = toFixed(queries[a][i].startTime, 1)
        /\ \A i \in 1..(Len(queries[a]) - 1) :
              queries[a][i + 1].startTime = Plus(queries[a][i].startTime, Dbl(50000))
        /\ \A i \in 1..(Len(foundLatencies[a]) - 1) :
              /\ foundLatencies[a][i + 1].startTime - foundLatencies[a][i].startTime
                    \in {49900, 50000, 50100}
              /\ foundLatencies[a][i + 1].startTime > foundLatencies[a][i].startTime

\* a step only appends to the log
C6_LogStep ==
    \A a \in AuditIds :
        /\ Len(foundLatencies'[a]) >= Len(foundLatencies[a])
        /\ \A i \in 1..Len(foundLatencies[a]) : foundLatencies'[a][i] = foundLatencies[a][i]

\* C6 amended: the window starts increase by 50 ms from one query to the
\* next and the starts logged, rounded to one fraction digit, increase
\* strictly and by 50 ms up to that rounding; one observation is appended
\* per estimator query in the order of the queries, and an entry once
\* logged never changes.
C6_ObservationLogMonotonic == [](C6_LogInvariant) /\ [][C6_LogStep]_vars

\* three observations of windows that start at 2000.05, 2050.05 and
\* 2100.05 ms, logged as 2000.0, 2050.1 and 2100.1
C6_Witness ==
    \E a \in AuditIds :
        /\ Len(foundLatencies[a]) >= 3
        /\ queries[a][1].startTime = Dbl(2000050)
        /\ foundLatencies[a][1].startTime = 2000000
        /\ foundLatencies[a][2].startTime = 2050100
        /\ foundLatencies[a][3].startTime = 2100100

-----------------------------------------------------------------------------
(* C7 *)

\* C7: on Found, every observation before the last is of a latency at or
\* above 50, the last (and only the last) is of a latency below 50, and
\* the interactive time is the last observation's window start.
C7_FoundIsEarliestBelowThreshold ==
    \A a \in AuditIds :
        search[a] = "Found" =>
            /\ foundLatencies[a] # <<>>
            /\ Len(answers[a]) = Len(foundLatencies[a])
            /\ \A i \in 1..(Len(answers[a]) - 1) : Leq(Dbl(50000), answers[a][i])
            /\ Less(Last(answers[a]), Dbl(50000))
            /\ timeToInteractive[a] = Last(foundLatencies[a]).startTime

-----------------------------------------------------------------------------
(* C8 *)

\* the estimator's answer to the first query was below the threshold
FirstAnswerBelowThreshold(a) ==
    answers[a] # <<>> /\ Less(answers[a][1], Dbl(50000))

\* C8: when the first answer of the estimator is below the threshold the
\* search ends at once in Found: no second query is made, the log holds
\* exactly one observation and the interactive time is the start of the
\* first window.
C8_FirstAnswerBelowThresholdFound ==
    \A a \in AuditIds :
        FirstAnswerBelowThreshold(a) =>
            /\ Len(queries[a]) = 1
            /\ Len(foundLatencies[a]) = 1
            /\ search[a] \in {"Searching", "Found"}
            /\ search[a] = "Searching" => (pc[a] = "search" /\ ~ENABLED SearchIter(a))
            /\ search[a] = "Found" =>
                  /\ timeToInteractive[a] = toFixed(queries[a][1].startTime, 1)
                  /\ timeToInteractive[a] = foundLatencies[a][1].startTime

C8_Witness ==
    \E a \in AuditIds :
        /\ FirstAnswerBelowThreshold(a)
        /\ search[a] = "Found"
        /\ Finished(a)
        /\ IsSuccessResult(result[a])
        /\ result[a].rawValue = MsString(2120000)

-----------------------------------------------------------------------------
(* C9 *)

\* C9: when every window up to the trace boundary has latency at or above
\* the threshold the search ends as Exhausted and the failure result
\* carries the whole observation log, in order.
C9_ExhaustedKeepsObservationLog ==
    \A a \in AuditIds :
        (/\ Finished(a)
         /\ answers[a] # <<>>
         /\ \A i \in 1..Len(answers[a]) : Leq(Dbl(50000), answers[a][i])
         /\ PastEndOfTrace(endTime[a], endOfTraceTime[a]))
        =>
            /\ search[a] = "Exhausted"
            /\ IsFailureResult(result[a])
            /\ IsResultRecord(result[a].extendedInfo)
            /\ result[a].extendedInfo.foundLatencies = foundLatencies[a]

-----------------------------------------------------------------------------
(* C10 *)

\* C10: every failure is returned as a value: the promise resolves, never
\* rejects, and whenever the audit did not succeed it resolves to the
\* sentinel failure shape, with the thrown error as the reason when a
\* collaborator threw.
C10_AllFailuresAreValues ==
    \A a \in AuditIds :
        /\ settled[a] # "rejected"
        /\ Finished(a) =>
              /\ settled[a] = "resolved"
              /\ IsSuccessResult(result[a]) \/ IsFailureResult(result[a])
              /\ err[a] # Undefined => result[a] = generateError(err[a])

\* the part of C10 the code keeps: an exception of a collaborator ends in
\* the sentinel failure shape carrying the error
ThrownErrorsBecomeFailureResults ==
    \A a \in AuditIds :
        /\ settled[a] # "rejected"
        /\ (Finished(a) /\ err[a] # Undefined) =>
              /\ settled[a] = "resolved"
              /\ IsFailureResult(result[a])
              /\ result[a].debugString = err[a]

-----------------------------------------------------------------------------
(* C11 *)

\* sample i of the visual progress is at or after the paint instant with
\* progress of at least 85
Qualifies(a, i) ==
    /\ Leq(Plus(timings[a].fMPfull, timings[a].navStart), visualProgress[a][i].time)
    /\ visualProgress[a][i].progress >= 85

\* C11: once fusion has matched, the matched sample is the first one in
\* sequence order that is at or after the paint instant with progress of
\* at least 85, readyTime is its time minus navigationStart, and the
\* instant the search starts from is max(firstMeaningfulPaint, readyTime):
\* at or after the paint time and the matched sample's page-relative time.
C11_FusionTakesFirstQualifyingSample ==
    \A a \in AuditIds :
        search[a] # "NotStarted" =>
            \E i \in 1..Len(visualProgress[a]) :
                /\ Qualifies(a, i)
                /\ \A k \in 1..(i - 1) : ~Qualifies(a, k)
                /\ visuallyReadyTiming[a] =
                      Minus(visualProgress[a][i].time, timings[a].navStart)
                /\ Leq(timings[a].fMPfull, visuallyReadyTiming[a])
                /\ queries[a] # <<>> =>
                      /\ queries[a][1].startTime \in {fmpTiming[a], visuallyReadyTiming[a]}
                      /\ Leq(fmpTiming[a], queries[a][1].startTime)
                      /\ Leq(timings[a].fMPfull, queries[a][1].startTime)
                      /\ Leq(Minus(visualProgress[a][i].time, timings[a].navStart),
                             queries[a][1].startTime)

\* two samples qualify and the earlier one is taken, with a navigation
\* start that is not zero
C11_Witness ==
    \E a \in AuditIds :
        /\ search[a] # "NotStarted"
        /\ Len(visualProgress[a]) = 2
        /\ ~Qualifies(a, 1)
        /\ Qualifies(a, 2)
        /\ timings[a].navStart = Dbl(1000000)
        /\ visuallyReadyTiming[a] = Minus(Dbl(3000140), Dbl(1000000))
        /\ queries[a] # <<>>
        /\ queries[a][1].startTime = Dbl(2120000)

-----------------------------------------------------------------------------
(* C12 *)

\* the audit has returned the result of line 144
Succeeded(a) == Finished(a) /\ search[a] = "Found" /\ err[a] = Undefined

\* the number the distribution gave for the interactive time
CcdfAnswer(a) == computeComplementaryPercentile(distribution[a], timeToInteractive[a])

\* C12: on every successful outcome the score is an integer in 0..100,
\* whatever the complementary percentile is: 0 when it is below 0, 100
\* when it is above 1, else an integer nearest to 100 times it: twice the
\* score is within 1 of 200 times the complementary percentile.
C12_ScoreIsClampedAndRounded ==
    \A a \in AuditIds :
        Succeeded(a) =>
            /\ IsResultRecord(result[a])
            /\ result[a].score \in 0..100
            /\ IF Less(CcdfAnswer(a), Whole(0)) THEN result[a].score = 0
               ELSE IF Less(Whole(1), CcdfAnswer(a)) THEN result[a].score = 100
               ELSE LET twoHundredfold == Signed(FALSE, MagTimes(CcdfAnswer(a), 200)) IN
                    /\ Leq(Whole(2 * result[a].score - 1), twoHundredfold)
                    /\ Leq(twoHundredfold, Whole(2 * result[a].score + 1))

\* complementary percentiles of 1.2 and of -0.1 give the scores 100 and 0
C12_Witness ==
    \E a \in AuditIds :
        /\ Succeeded(a)
        /\ CcdfAnswer(a) \in {Dbl(-100), Dbl(1200)}
        /\ result[a].score \in {0, 100}

-----------------------------------------------------------------------------
(* C13 *)

\* the complementary percentile of the distribution does not increase
NonIncreasing(d) == Leq(d.lo, d.hi)

\* C13: for a distribution whose complementary percentile is
\* non-increasing, of two successful outcomes the one with the earlier
\* interactive time has the score that is at least as high.
C13_ScoreNonIncreasingInInteractiveTime ==
    \A a, b \in AuditIds :
        (/\ Succeeded(a)
         /\ Succeeded(b)
         /\ distribution[a] = distribution[b]
         /\ NonIncreasing(distribution[a])
         /\ timeToInteractive[a] <= timeToInteractive[b])
        => result[a].score >= result[b].score

\* interactive at 2000.0 ms scores 100 and at 2050.1 ms scores 50 under
\* the same distribution
C13_Witness ==
    \E a, b \in AuditIds :
        /\ Succeeded(a)
        /\ Succeeded(b)
        /\ distribution[a] = distribution[b]
        /\ NonIncreasing(distribution[a])
        /\ timeToInteractive[a] = 2000000
        /\ timeToInteractive[b] = 2050100
        /\ result[a].score = 100
        /\ result[b].score = 50

-----------------------------------------------------------------------------
(* C14 *)

\* C14: the decision to stop or to go on rests on the estimator's exact
\* value, not on a rounded one: a search that went on did so on an answer
\* not below 50, and an answer above 50 (such as 50.004) never ends the
\* search.
C14_ComparisonUsesExactLatency ==
    \A a \in AuditIds :
        /\ \A i \in 1..(Len(answers[a]) - 1) : Leq(Dbl(50000), answers[a][i])
        /\ search[a] = "Found" => Leq(Last(answers[a]), Dbl(50000))

-----------------------------------------------------------------------------
(* C15 *)

\* the rounding error the sums of the search may add up to is far below
\* 2^-20 ms
Tolerance == [neg |-> FALSE, int |-> 0, frac |-> <<1, 0, 0, 0, 0>>]

\* the end of window n of the scan, windows counted from 1 at the fused
\* ready instant, in exact arithmetic
ExactWindowEnd(a, n) == ExactPlus(FusedInstant(a), Whole(450 + 50 * n))

\* n is at most floor((endOfTraceTime - 500 - firstStart) / 50) + 1,
\* firstStart the fused ready instant: window n ends inside the trace
WithinStatedBound(a, n) ==
    Leq(ExactWindowEnd(a, n), ExactPlus(endOfTraceTime[a], Tolerance))

\* C15 as stated: the number of estimator queries is at most
\* floor((endOfTraceTime - 500 - firstStart) / 50) + 1.
C15_QueriesWithinStatedBound ==
    \A a \in AuditIds :
        search[a] # "NotStarted" => WithinStatedBound(a, Len(queries[a]))

\* the queries never exceed the windows that fit in the trace, and
\* exhaustion comes when the next window does not fit
C15_QueryBound ==
    \A a \in AuditIds :
        search[a] # "NotStarted" =>
            /\ Len(queries[a]) >= 1 => WithinStatedBound(a, Len(queries[a]))
            /\ search[a] = "Exhausted" =>
                  Less(ExactPlus(endOfTraceTime[a], Negated(Tolerance)),
                       ExactWindowEnd(a, Len(queries[a]) + 1))

\* C15 amended: the search always ends, in Found or Exhausted when the
\* estimator answers every query, after at most
\* max(0, floor((endOfTraceTime - 500 - firstStart) / 50) + 1) queries,
\* the quotient taken up to the rounding error of the sums; the trace
\* boundary is the only bound on the iteration.
C15_SearchTerminates ==
    /\ [](C15_QueryBound)
    /\ \A a \in AuditIds :
          (search[a] = "Searching") ~> (search[a] \in {"Found", "Exhausted", "Threw"})

\* every answer is above the threshold and the search is exhausted after
\* as many queries as windows fit, three or more
C15_Witness ==
    \E a \in AuditIds :
        /\ search[a] = "Exhausted"
        /\ Len(queries[a]) >= 3
        /\ Len(answers[a]) = Len(queries[a])
        /\ WithinStatedBound(a, Len(queries[a]))
        /\ ~WithinStatedBound(a, Len(queries[a]) + 1)

-----------------------------------------------------------------------------
(* C16 *)

\* everything one invocation holds: its position, its locals, its log and
\* its promise
OwnState(a) ==
    <<pc[a], fmpResult[a], fmpTiming[a], timings[a], modelBuilt[a],
      endOfTraceTime[a], framesScanned[a], visualProgress[a],
      visuallyReadyTiming[a], startTime[a], endTime[a], currentLatency[a],
      foundLatencies[a], queries[a], answers[a], search[a],
      timeToInteractive[a], distribution[a], err[a], returned[a], settled[a],
      result[a]>>

\* the exception a collaborator threw in the invocation, if any
ThrownByCollaborator(a) ==
    IF err[a] \in {FmpRejection, TraceError, FrameError, EstimatorError, DistributionError}
    THEN err[a]
    ELSE Undefined

\* what the collaborators gave the invocation
InputsOf(a) ==
    <<fmpResult[a], modelBuilt[a], endOfTraceTime[a], framesScanned[a],
      visualProgress[a], Len(queries[a]), answers[a], distribution[a],
      ThrownByCollaborator(a)>>

\* a step belongs to one invocation and leaves the other invocations'
\* state as it was
C16_StepTouchesOneInvocation ==
    \E a \in AuditIds : \A b \in AuditIds \ {a} : OwnState(b)' = OwnState(b)

\* the result and the log of a finished invocation are determined by its
\* own inputs, however its steps were interleaved with another's
C16_ResultFromOwnInputs ==
    \A a, b \in AuditIds :
        (Finished(a) /\ Finished(b) /\ InputsOf(a) = InputsOf(b)) =>
            /\ result[a] = result[b]
            /\ foundLatencies[a] = foundLatencies[b]
            /\ startTime[a] = startTime[b]
            /\ endTime[a] = endTime[b]
            /\ currentLatency[a] = currentLatency[b]

\* C16: interleaved invocations are independent: each step changes only
\* the search state and the log of the invocation it belongs to, and an
\* invocation's result is the one its own inputs determine.
C16_ConcurrentAuditsIndependent ==
    [](C16_ResultFromOwnInputs) /\ [][C16_StepTouchesOneInvocation]_vars

\* both invocations are in the middle of their searches, with logs of
\* different lengths
C16_Witness ==
    /\ pc[1] = "search"
    /\ pc[2] = "search"
    /\ Len(foundLatencies[1]) = 1
    /\ Len(foundLatencies[2]) = 2

-----------------------------------------------------------------------------
(* C17 *)

\* the window from s to e is 500 ms wide: e is the double nearest to s + 500
FixedWidth(s, e) ==
    /\ e = Plus(s, Dbl(500000))
    /\ Leq(ExactPlus(s, Whole(500)), ExactPlus(e, Tolerance))
    /\ Leq(e, ExactPlus(ExactPlus(s, Whole(500)), Tolerance))

\* C17: every window the latency estimator is asked about has the fixed
\* width of 500 ms, ends at or before the end of the trace, starts no
\* earlier than one step before the later of first meaningful paint and
\* visual readiness, and is asked for the single percentile 0.9.
C17_QueriesInsideTrace ==
    \A a \in AuditIds : \A i \in 1..Len(queries[a]) :
        /\ FixedWidth(queries[a][i].startTime, queries[a][i].endTime)
        /\ Leq(queries[a][i].endTime, endOfTraceTime[a])
        /\ Leq(Minus(FusedInstant(a), Dbl(50000)), queries[a][i].startTime)
        /\ queries[a][i].percentiles = <<90>>

\* the estimator has been asked about a second window, one that ends
\* exactly where the trace ends
C17_Witness ==
    \E a \in AuditIds :
        /\ Len(queries[a]) >= 2
        /\ Last(queries[a]).endTime = endOfTraceTime[a]
        /\ Len(answers[a]) = Len(queries[a])

-----------------------------------------------------------------------------
(* C18 *)

\* the parts of C18 that do not count the observations: the raw value's
\* time, the reported main-thread availability and the last observation's
\* window start are the same, the expected latency is the last
\* observation's, and the interactive time is no more than one step before
\* the reported first meaningful paint and visual readiness
DiagnosticsAgree(r) ==
    LET info == r.extendedInfo
        log == info.foundLatencies
        interactiveTime == r.rawValue[2]
    IN
    /\ r.rawValue[1] = "ms"
    /\ log # <<>>
    /\ info.timings.mainThreadAvail = interactiveTime
    /\ Last(log).startTime = interactiveTime
    /\ info.expectedLatencyAtTTI = Last(log).estLatency
    /\ interactiveTime >= info.timings.fMP - 50000
    /\ interactiveTime >= info.timings.visuallyReady - 50000

\* the number of observations is (interactive time - first window start)
\* / 50 + 1, of the times as the result reports them
CountIsExactQuotient(r) ==
    LET log == r.extendedInfo.foundLatencies IN
    /\ (r.rawValue[2] - log[1].startTime) % 50000 = 0
    /\ Len(log) = ((r.rawValue[2] - log[1].startTime) \div 50000) + 1

\* the number of observations is that quotient rounded to the nearest
\* integer, + 1: the two times reported are 50 ms times the observations
\* after the first apart, up to the 0.1 ms of their rounding
CountIsRoundedQuotient(r) ==
    LET log == r.extendedInfo.foundLatencies
        gap == r.rawValue[2] - log[1].startTime - 50000 * (Len(log) - 1)
    IN gap \in {-100, 0, 100}

\* C18 as stated: on every successful result the raw value's time, the
\* reported main-thread availability and the last observation's window
\* start are the same instant, the expected latency is the last
\* observation's, the number of observations is (interactive time - first
\* window start) / 50 + 1, and the interactive time is no more than one
\* step before the reported first meaningful paint and visual readiness.
C18_DiagnosticsMutuallyConsistent ==
    \A a \in AuditIds :
        Succeeded(a) => (DiagnosticsAgree(result[a]) /\ CountIsExactQuotient(result[a]))

\* C18 amended: the same, with the number of observations equal to
\* (interactive time - first window start) / 50 rounded to the nearest
\* integer, + 1.
C18_DiagnosticsConsistentUpToRounding ==
    \A a \in AuditIds :
        Succeeded(a) => (DiagnosticsAgree(result[a]) /\ CountIsRoundedQuotient(result[a]))

\* a successful result with two observations, of windows that start at
\* 2000.05 and 2050.05 ms and are reported as 2000.0 and 2050.1
C18_Witness ==
    \E a \in AuditIds :
        /\ Succeeded(a)
        /\ IsSuccessResult(result[a])
        /\ Len(result[a].extendedInfo.foundLatencies) = 2
        /\ result[a].extendedInfo.foundLatencies[1].startTime = 2000000
        /\ result[a].rawValue = MsString(2050100)

====
